---- MODULE Spec2Model ----
(***************************************************************************)
(* A model of model/ocean_solution.py: the OceanSolution context (its      *)
(* configuration attributes and its two adoption-scenario handles) and the *)
(* metric methods that combine the PDS and REF time series.                *)
(*                                                                         *)
(* Numbers are exact rationals <<n, d>> (d >= 0, lowest terms); <<0, 0>>   *)
(* stands for NaN and <<1, 0>>, <<-1, 0>> for the two infinities, so the   *)
(* float identities of the code are checked as exact arithmetic.           *)
(* A pandas Series is a function from its index (a set of years, kept in   *)
(* increasing order as the adoption model produces it) to such numbers; a  *)
(* row's position is the rank of its year in the index.                    *)
(***************************************************************************)
EXTENDS Integers, FiniteSets, Sequences

VARIABLES
    attrs,                \* the attributes that are set on self
    start_year, end_year, base_year,
    pds_adoption_file, ref_adoption_file,
    scenario,             \* self.scenario: the scenario parameters
    npv_discount_rate, disturbance_rate,
    sequestration_rate_all_ocean, growth_rate_of_ocean_degradation,
    delay_impact_of_protection_by_one_year,
    delay_regrowth_of_degraded_land_by_one_year,
    pds_scenario, ref_scenario,   \* the two handles
    files,                \* what the adoption model computes from each input file
    next_id,              \* identity given to the next handle object
    call,                 \* the last operation called, with its argument
    result,               \* what it returned or raised
    memo                  \* history: the first metric call made, when recorded

vars == <<attrs, start_year, end_year, base_year, pds_adoption_file,
          ref_adoption_file, scenario, npv_discount_rate, disturbance_rate,
          sequestration_rate_all_ocean, growth_rate_of_ocean_degradation,
          delay_impact_of_protection_by_one_year,
          delay_regrowth_of_degraded_land_by_one_year,
          pds_scenario, ref_scenario, files, next_id, call, result, memo>>

config == <<start_year, end_year, base_year, pds_adoption_file,
            ref_adoption_file, scenario, npv_discount_rate, disturbance_rate,
            sequestration_rate_all_ocean, growth_rate_of_ocean_degradation,
            delay_impact_of_protection_by_one_year,
            delay_regrowth_of_degraded_land_by_one_year>>

(***************************************************************************)
(* Bounds of the model.                                                    *)
(***************************************************************************)
MaxYear == 4        \* the series' years are drawn from 0..MaxYear
MaxFlow == 3        \* rows of a lifetime cash flow series
MaxLoads == 2       \* handle objects constructed in one run

Years == 0..MaxYear

(***************************************************************************)
(* Exact arithmetic standing for np.float64.                               *)
(***************************************************************************)
Abs(n) == IF n < 0 THEN -n ELSE n

Sign(n) == IF n < 0 THEN -1 ELSE IF n > 0 THEN 1 ELSE 0

RECURSIVE GCD(_, _)
GCD(a, b) == IF b = 0 THEN a ELSE GCD(b, a % b)

Rat(n, d) ==
    IF d = 0 THEN <<Sign(n), 0>>
    ELSE LET g == GCD(Abs(n), Abs(d))
         IN  <<(Sign(d) * n) \div g, Abs(d) \div g>>

NaN == <<0, 0>>

Num(n) == <<n, 1>>

IsNaN(x) == x = NaN

RAdd(x, y) ==
    IF x[2] = 0 /\ y[2] = 0
    THEN (IF x = y THEN x ELSE NaN)
    ELSE Rat(x[1] * y[2] + y[1] * x[2], x[2] * y[2])

RNeg(x) == <<-x[1], x[2]>>

RSub(x, y) == RAdd(x, RNeg(y))

RMul(x, y) == Rat(x[1] * y[1], x[2] * y[2])

RDiv(x, y) ==
    IF IsNaN(x) \/ IsNaN(y) THEN NaN
    ELSE Rat(x[1] * y[2] * (IF y[1] < 0 THEN -1 ELSE 1), x[2] * Abs(y[1]))

RECURSIVE RPow(_, _)
RPow(x, k) == IF k = 0 THEN Num(1) ELSE RMul(x, RPow(x, k - 1))

\* x > y as floats compare: false when either is NaN
RGreater(x, y) ==
    /\ ~IsNaN(x) /\ ~IsNaN(y)
    /\ IF x[2] = 0 \/ y[2] = 0
       THEN (IF x[2] = 0 /\ y[2] = 0 THEN x[1] > y[1]
             ELSE IF x[2] = 0 THEN x[1] > 0 ELSE y[1] < 0)
       ELSE x[1] * y[2] > y[1] * x[2]

(***************************************************************************)
(* pandas Series operations, as the metric methods use them.               *)
(***************************************************************************)
Index(s) == DOMAIN s

EmptySeries == [y \in {} |-> NaN]

\* s1 - s2, s1.subtract(s2): aligned on the union of the indexes
SeriesSub(s1, s2) ==
    [y \in Index(s1) \cup Index(s2) |->
        IF y \in Index(s1) /\ y \in Index(s2) THEN RSub(s1[y], s2[y]) ELSE NaN]

\* s1.add(s2) and s1 + s2
SeriesAdd(s1, s2) ==
    [y \in Index(s1) \cup Index(s2) |->
        IF y \in Index(s1) /\ y \in Index(s2) THEN RAdd(s1[y], s2[y]) ELSE NaN]

\* s1.add(s2, fill_value=fill): a value missing from one side is fill;
\* missing from both sides the row stays NaN
SeriesAddFill(s1, s2, fill) ==
    [y \in Index(s1) \cup Index(s2) |->
        LET a == IF y \in Index(s1) THEN s1[y] ELSE NaN
            b == IF y \in Index(s2) THEN s2[y] ELSE NaN
        IN  IF IsNaN(a) /\ IsNaN(b) THEN NaN
            ELSE RAdd(IF IsNaN(a) THEN fill ELSE a, IF IsNaN(b) THEN fill ELSE b)]

SeriesFillNa(s, fill) == [y \in Index(s) |-> IF IsNaN(s[y]) THEN fill ELSE s[y]]

\* s * x for a scalar x
SeriesScale(s, x) == [y \in Index(s) |-> RMul(s[y], x)]

SeriesNeg(s) == [y \in Index(s) |-> RNeg(s[y])]

\* s.loc[lo:hi] on an increasing index: both ends included, absent labels
\* are no error
LocSlice(s, lo, hi) == [y \in {k \in Index(s) : lo <= k /\ k <= hi} |-> s[y]]

\* s.sum(): NaN rows are skipped, the empty sum is 0
RECURSIVE SumKeys(_, _)
SumKeys(s, keys) ==
    IF keys = {} THEN Num(0)
    ELSE LET y == CHOOSE k \in keys : \A j \in keys : k <= j
             rest == SumKeys(s, keys \ {y})
         IN  IF IsNaN(s[y]) THEN rest ELSE RAdd(s[y], rest)

SeriesSum(s) == SumKeys(s, Index(s))

\* s.cumsum(): a NaN row stays NaN and is skipped by the rows after it
CumSum(s) ==
    [y \in Index(s) |->
        IF IsNaN(s[y]) THEN NaN ELSE SumKeys(s, {k \in Index(s) : k <= y})]

\* 0-based position of the row labelled y
RowOf(s, y) == Cardinality({k \in Index(s) : k < y})

\* the label of the row at 0-based position i
LabelAt(s, i) == CHOOSE y \in Index(s) : RowOf(s, y) = i

\* s.multiply(factors, axis='index') for a list as long as s
SeriesMultiplyList(s, factors) ==
    [y \in Index(s) |-> RMul(s[y], factors[RowOf(s, y) + 1])]

\* s.argmax(): position of the first largest value, NaN rows skipped
ArgMax(s) ==
    LET pos == {i \in 0..(Cardinality(Index(s)) - 1) : ~IsNaN(s[LabelAt(s, i)])}
    IN  CHOOSE i \in pos :
            /\ \A j \in pos : ~RGreater(s[LabelAt(s, j)], s[LabelAt(s, i)])
            /\ \A j \in pos : j < i => RGreater(s[LabelAt(s, i)], s[LabelAt(s, j)])

\* s.iloc[i]
ILoc(s, i) == s[LabelAt(s, i)]

\* Python's built-in max over the rows of a non-empty series, in order: the
\* first row is kept until a later row compares greater
RECURSIVE PyMaxFrom(_, _, _)
PyMaxFrom(s, i, cur) ==
    IF i >= Cardinality(Index(s)) THEN cur
    ELSE PyMaxFrom(s, i + 1, IF RGreater(ILoc(s, i), cur) THEN ILoc(s, i) ELSE cur)

PyMax(s) == PyMaxFrom(s, 1, ILoc(s, 0))

(***************************************************************************)
(* What a call returns or raises.                                          *)
(***************************************************************************)
NoResult == [kind |-> "none", val |-> NaN, msg |-> <<>>]

Value(x) == [kind |-> "value", val |-> x, msg |-> <<>>]

Raised(e) == [kind |-> e, val |-> NaN, msg |-> <<>>]

AttributeError == Raised("AttributeError")

KeyError == Raised("KeyError")

IsValue(r) == r.kind = "value"

\* v / 1000 of a returned value; an exception passes through
InBillions(r) == IF IsValue(r) THEN Value(RDiv(r.val, Num(1000))) ELSE r

Has(names) == names \subseteq attrs

(***************************************************************************)
(* The adoption-scenario handles.  A handle keeps the file it was built    *)
(* from; its accessors return the series the adoption model computes from  *)
(* that file.                                                              *)
(***************************************************************************)
ParamNames == {"first_cost", "expected_lifetime", "net_profit_margin",
               "operating_cost", "sequestration_rate_all_ocean",
               "disturbance_rate", "growth_rate_of_ocean_degradation"}

NoParams == [p \in ParamNames |-> NaN]

Unassigned == [id |-> 0, name |-> "", file |-> "", params |-> NoParams]

Data(h) == files[h.file]

get_units_adopted(h) == Data(h).units_adopted

get_tam_units(h) == Data(h).tam_units

get_annual_world_first_cost(h) == Data(h).annual_world_first_cost

get_operating_cost_series(h, ey) == Data(h).operating_cost

get_lifetime_operating_savings_series(h, ey) == Data(h).lifetime_operating_savings

get_net_profit_margin_series(h, ey) == Data(h).net_profit_margin

get_lifetime_cashflow_npv(h, purchase_year, rate) ==
    Data(h).lifetime_cashflow_npv[<<purchase_year, rate>>]

\* the two-argument call of get_total_co2_seq
get_carbon_sequestration2(h, seq_rate, dist_rate) == Data(h).carbon_sequestration

\* the four-argument call of the annual metrics
get_carbon_sequestration4(h, seq_rate, dist_rate, growth, delay) ==
    Data(h).carbon_sequestration_delayed[delay]

get_change_in_ppm_equiv_series(h) == Data(h).change_in_ppm_equiv

(***************************************************************************)
(* The computations of the metric methods, on the series they read.        *)
(***************************************************************************)
\* series.loc[y]
Loc(s, y) == IF y \in Index(s) THEN Value(s[y]) ELSE KeyError

\* series.loc[list(range(lo, hi + 1))].sum(): every listed label must exist
LocListSum(s, lo, hi) ==
    IF (lo..hi) \subseteq Index(s)
    THEN Value(SumKeys(s, lo..hi))
    ELSE KeyError

\* cumsum().loc[ey] - cumsum().loc[sy]
CumSumDiff(s, sy, ey) ==
    IF ey \notin Index(s) \/ sy \notin Index(s) THEN KeyError
    ELSE Value(RSub(CumSum(s)[ey], CumSum(s)[sy]))

\* a quotient of two looked-up values
Quotient(a, b) ==
    IF ~IsValue(a) THEN a ELSE IF ~IsValue(b) THEN b
    ELSE Value(RDiv(a.val, b.val))

adoption_unit_increase_pds_vs_ref_final_year(pds_units, ref_units, ey) ==
    Loc(SeriesSub(pds_units, ref_units), ey)

percent_adoption(pds_units, tam_units, year) ==
    Quotient(Loc(pds_units, year), Loc(tam_units, year))

\* the sum started one year early
marginal_first_cost_from_prior_year(pds_awfc, ref_awfc, by, ey) ==
    InBillions(LocListSum(SeriesSub(pds_awfc, ref_awfc), by - 1, ey))

marginal_first_cost(pds_awfc, ref_awfc, by, ey) ==
    InBillions(LocListSum(SeriesSub(pds_awfc, ref_awfc), by, ey))

cumulative_first_cost_pds(pds_fc, by, ey) ==
    InBillions(LocListSum(pds_fc, by, ey))

\* the difference taken from the year before start_year
operating_cost_side_from_prior_year(oc, dr, sy, ey) ==
    CumSumDiff(SeriesScale(oc, RAdd(Num(1), dr)), sy - 1, ey)

operating_cost_side(oc, dr, sy, ey) ==
    CumSumDiff(SeriesScale(oc, RAdd(Num(1), dr)), sy, ey)

operating_cost(pds_oc, ref_oc, dr, sy, ey) ==
    LET pds_result == operating_cost_side(pds_oc, dr, sy, ey)
        ref_result == operating_cost_side(ref_oc, dr, sy, ey)
    IN  IF ~IsValue(pds_result) THEN pds_result
        ELSE IF ~IsValue(ref_result) THEN ref_result
        ELSE InBillions(Value(RSub(ref_result.val, pds_result.val)))

lifetime_operating_savings(pds_los, dr) ==
    InBillions(Value(RNeg(SeriesSum(SeriesScale(pds_los, RAdd(Num(1), dr))))))

lifetime_cashflow_npv_single(cashflow) ==
    InBillions(Value(SeriesSum(SeriesScale(cashflow, Num(-1)))))

\* the largest value of the negated cash flow itself, not of its running sum
payback_period_without_cumsum(cashflow) ==
    Value(ILoc(SeriesNeg(cashflow), ArgMax(SeriesNeg(cashflow))))

\* cumulative_sum.iloc[cumulative_sum.argmax()] of the negated cash flow
payback_period(cashflow) ==
    LET cumulative_sum == CumSum(SeriesNeg(cashflow))
    IN  Value(ILoc(cumulative_sum, ArgMax(cumulative_sum)))

\* the first row left undiscounted: discount_factor**row
DiscountFactorsFromZero(rate, num_rows) ==
    [row \in 1..num_rows |-> RPow(RDiv(Num(1), RAdd(Num(1), rate)), row - 1)]

\* [discount_factor**(row+1) for row in range(num_rows)]
DiscountFactors(rate, num_rows) ==
    [row \in 1..num_rows |-> RPow(RDiv(Num(1), RAdd(Num(1), rate)), row)]

Discounted(net_cash_flow, rate) ==
    SeriesMultiplyList(net_cash_flow,
                       DiscountFactors(rate, Cardinality(Index(net_cash_flow))))

npv_net_cash_flow(pds_fc, ref_fc, pds_los, dr, sy, ey) ==
    LET fc_clipped == LocSlice(SeriesSub(ref_fc, pds_fc), sy - 1, ey)
        op_cost == SeriesScale(SeriesNeg(pds_los), RAdd(Num(1), dr))
    IN  SeriesAddFill(fc_clipped, op_cost, Num(0))

lifetime_cashflow_npv_all(pds_fc, ref_fc, pds_los, dr, rate, sy, ey) ==
    InBillions(Value(SeriesSum(
        Discounted(npv_net_cash_flow(pds_fc, ref_fc, pds_los, dr, sy, ey), rate))))

total_co2_seq(pds_seq, ref_seq, sy, ey) ==
    InBillions(Value(SeriesSum(LocSlice(SeriesSub(pds_seq, ref_seq), sy + 1, ey))))

abatement_net_cash_flow(pds_fc, ref_fc, pds_los, ref_los, dr, sy, ey) ==
    LET fc_clipped == LocSlice(SeriesSub(ref_fc, pds_fc), sy - 1, ey)
        net_op_cost == SeriesScale(SeriesSub(ref_los, pds_los), RAdd(Num(1), dr))
    IN  SeriesFillNa(SeriesAdd(fc_clipped, net_op_cost), Num(0))

abatement_npv_summed(pds_fc, ref_fc, pds_los, ref_los, dr, rate, sy, ey) ==
    SeriesSum(LocSlice(
        Discounted(abatement_net_cash_flow(pds_fc, ref_fc, pds_los, ref_los,
                                           dr, sy, ey), rate),
        sy, ey))

abatement_cost(total_co2_reduction, npv_summed) ==
    InBillions(Value(RDiv(RMul(Num(-1), npv_summed), total_co2_reduction)))

net_profit_margin(margin, dr, sy, ey) ==
    InBillions(CumSumDiff(SeriesScale(margin, RSub(Num(1), dr)), sy, ey))

lifetime_profit_margin(margin, dr) ==
    InBillions(Value(SeriesSum(SeriesScale(margin, RSub(Num(1), dr)))))

change_in_ppm_equiv(pds_ppm, ref_ppm, ey, delay_period) ==
    Loc(SeriesSub(pds_ppm, ref_ppm),
        IF delay_period > 0 THEN ey - delay_period ELSE ey)

change_in_ppm_equiv_final_year(pds_ppm, ref_ppm, ey) ==
    LET net_sequestration == SeriesSub(pds_ppm, ref_ppm)
        last == Loc(net_sequestration, ey)
        before == Loc(net_sequestration, ey - 1)
    IN  IF ~IsValue(last) THEN last ELSE IF ~IsValue(before) THEN before
        ELSE Value(RSub(last.val, before.val))

\* only the end of the range moved by the delay
max_annual_co2_sequestered_end_only(pds_seq, ref_seq, sy, ey, delay_regrowth) ==
    LET end == IF delay_regrowth THEN ey - 1 ELSE ey
        rows == LocSlice(SeriesSub(pds_seq, ref_seq), sy, end)
    IN  IF Index(rows) = {} THEN Raised("ValueError")
        ELSE InBillions(Value(PyMax(rows)))

max_annual_co2_sequestered(pds_seq, ref_seq, sy, ey, delay_regrowth) ==
    LET start == IF delay_regrowth THEN sy - 1 ELSE sy
        end == IF delay_regrowth THEN ey - 1 ELSE ey
        rows == LocSlice(SeriesSub(pds_seq, ref_seq), start, end)
    IN  IF Index(rows) = {} THEN Raised("ValueError")
        ELSE InBillions(Value(PyMax(rows)))

co2_sequestered_final_year(pds_seq, ref_seq, ey, delay_regrowth) ==
    InBillions(Loc(SeriesSub(pds_seq, ref_seq),
                   IF delay_regrowth THEN ey - 1 ELSE ey))

(***************************************************************************)
(* Construction and scenario loading.                                      *)
(***************************************************************************)
FileNames == {"pds.csv", "ref.csv"}

RateValues == {Num(0), Num(1)}

PurchaseYears == {1, 2}

ConfigAttrs == {"start_year", "end_year", "base_year", "pds_adoption_file",
                "ref_adoption_file", "scenarios_file",
                "required_version_minimum", "_config"}

ScalarAttrs == {"scenario", "npv_discount_rate", "disturbance_rate",
                "sequestration_rate_all_ocean",
                "growth_rate_of_ocean_degradation",
                "delay_impact_of_protection_by_one_year",
                "delay_regrowth_of_degraded_land_by_one_year"}

\* base_year <= start_year <= end_year, with a year before base_year and a
\* year after end_year inside Years
YearConfigs ==
    {c \in Years \X Years \X Years :
        1 <= c[1] /\ c[1] <= c[2] /\ c[2] <= c[3] /\ c[3] <= MaxYear - 1}

None == [kind |-> "None", val |-> NaN, msg |-> <<>>]

NoCall == [op |-> "", arg |-> -1]

\* the history is not recorded
MemoOff == [call |-> NoCall, result |-> None]

\* the history is recorded and no metric was called yet
NoMemo == [call |-> NoCall, result |-> NoResult]

\* a method of the constructed object returns (or raises) r
Returns(op, arg, r) ==
    /\ attrs # {}
    /\ call' = [op |-> op, arg |-> arg]
    /\ result' = r
    /\ memo' = IF memo = NoMemo
               THEN [call |-> [op |-> op, arg |-> arg], result |-> r]
               ELSE memo
    /\ UNCHANGED <<attrs, config, pds_scenario, ref_scenario, files, next_id>>

\* __init__ with _load_config_file: the configuration file gives the years
\* and the two adoption file names
__init__(by, sy, ey) ==
    /\ attrs = {}
    /\ attrs' = ConfigAttrs
    /\ start_year' = sy
    /\ end_year' = ey
    /\ base_year' = by
    /\ pds_adoption_file' = "pds.csv"
    /\ ref_adoption_file' = "ref.csv"
    /\ call' = [op |-> "__init__", arg |-> -1]
    /\ result' = None
    /\ UNCHANGED <<scenario, npv_discount_rate, disturbance_rate,
                   sequestration_rate_all_ocean, growth_rate_of_ocean_degradation,
                   delay_impact_of_protection_by_one_year,
                   delay_regrowth_of_degraded_land_by_one_year,
                   pds_scenario, ref_scenario, files, next_id, memo>>

TheScenario(dr) ==
    [pds_scenario_name |-> "pds-plausible", ref_scenario_name |-> "ref-baseline",
     soln_first_cost |-> Num(7), soln_expected_lifetime |-> Num(30),
     soln_net_profit_margin |-> Num(3), soln_operating_cost |-> Num(5),
     sequestration_rate_all_ocean |-> Num(2), disturbance_rate |-> dr,
     growth_rate_of_ocean_degradation |-> Num(0)]

NoScenario == TheScenario(NaN)

\* The caller's configuration of the context: the scenario parameters, the
\* rates and the delay flags, set once
configure_context(rate, dr, delay_impact, delay_regrowth) ==
    /\ attrs = ConfigAttrs
    /\ attrs' = attrs \cup ScalarAttrs
    /\ scenario' = TheScenario(dr)
    /\ npv_discount_rate' = rate
    /\ disturbance_rate' = dr
    /\ sequestration_rate_all_ocean' = Num(2)
    /\ growth_rate_of_ocean_degradation' = Num(0)
    /\ delay_impact_of_protection_by_one_year' = delay_impact
    /\ delay_regrowth_of_degraded_land_by_one_year' = delay_regrowth
    /\ call' = [op |-> "configure", arg |-> -1]
    /\ result' = None
    /\ UNCHANGED <<start_year, end_year, base_year, pds_adoption_file,
                   ref_adoption_file, pds_scenario, ref_scenario, files, next_id,
                   memo>>

\* the error raised without the scenario's name
_load_adoption_scenario_unnamed_error(adoption_input_file, adoption_scenario_name, constructed) ==
    IF constructed
    THEN [kind |-> "value", val |-> NaN, msg |-> <<>>,
          handle |-> [id |-> next_id, name |-> adoption_scenario_name,
                      file |-> adoption_input_file, params |-> NoParams]]
    ELSE [kind |-> "ValueError", val |-> NaN,
          msg |-> <<"Unable to initialise">>,
          handle |-> Unassigned]

\* UnitAdoption(base_year, end_year, name, file), or the ValueError raised in
\* its place when the adoption model rejects the file
_load_adoption_scenario(adoption_input_file, adoption_scenario_name, constructed) ==
    IF constructed
    THEN [kind |-> "value", val |-> NaN, msg |-> <<>>,
          handle |-> [id |-> next_id, name |-> adoption_scenario_name,
                      file |-> adoption_input_file, params |-> NoParams]]
    ELSE [kind |-> "ValueError", val |-> NaN,
          msg |-> <<"Unable to initialise", adoption_scenario_name>>,
          handle |-> Unassigned]

\* the last of the seven assignments left out
InjectSixParameters(h) ==
    [h EXCEPT !.params =
        [p \in ParamNames |->
            CASE p = "first_cost" -> scenario.soln_first_cost
              [] p = "expected_lifetime" -> scenario.soln_expected_lifetime
              [] p = "net_profit_margin" -> scenario.soln_net_profit_margin
              [] p = "operating_cost" -> scenario.soln_operating_cost
              [] p = "sequestration_rate_all_ocean" ->
                     scenario.sequestration_rate_all_ocean
              [] p = "disturbance_rate" -> scenario.disturbance_rate
              [] OTHER -> NaN]]

\* the seven assignments that follow the construction of a handle
InjectParameters(h) ==
    [h EXCEPT !.params =
        [p \in ParamNames |->
            CASE p = "first_cost" -> scenario.soln_first_cost
              [] p = "expected_lifetime" -> scenario.soln_expected_lifetime
              [] p = "net_profit_margin" -> scenario.soln_net_profit_margin
              [] p = "operating_cost" -> scenario.soln_operating_cost
              [] p = "sequestration_rate_all_ocean" ->
                     scenario.sequestration_rate_all_ocean
              [] p = "disturbance_rate" -> scenario.disturbance_rate
              [] p = "growth_rate_of_ocean_degradation" ->
                     scenario.growth_rate_of_ocean_degradation]]

Outcome(r) == [kind |-> r.kind, val |-> r.val, msg |-> r.msg]

_load_pds_scenario(constructed) ==
    /\ attrs # {}
    /\ next_id <= MaxLoads
    /\ call' = [op |-> "_load_pds_scenario", arg |-> -1]
    /\ IF ~Has({"pds_adoption_file", "scenario"})
       THEN /\ result' = AttributeError
            /\ UNCHANGED <<attrs, pds_scenario, next_id>>
       ELSE LET ad_scenario == _load_adoption_scenario(
                    pds_adoption_file, scenario.pds_scenario_name, constructed)
            IN  IF ad_scenario.kind = "value"
                THEN /\ pds_scenario' = InjectParameters(ad_scenario.handle)
                     /\ attrs' = attrs \cup {"pds_scenario"}
                     /\ next_id' = next_id + 1
                     /\ result' = None
                ELSE /\ result' = Outcome(ad_scenario)
                     /\ UNCHANGED <<attrs, pds_scenario, next_id>>
    /\ UNCHANGED <<config, ref_scenario, files, memo>>

_load_ref_scenario(constructed) ==
    /\ attrs # {}
    /\ next_id <= MaxLoads
    /\ call' = [op |-> "_load_ref_scenario", arg |-> -1]
    /\ IF ~Has({"ref_adoption_file", "scenario"})
       THEN /\ result' = AttributeError
            /\ UNCHANGED <<attrs, ref_scenario, next_id>>
       ELSE LET ad_scenario == _load_adoption_scenario(
                    ref_adoption_file, scenario.ref_scenario_name, constructed)
            IN  IF ad_scenario.kind = "value"
                THEN /\ ref_scenario' = InjectParameters(ad_scenario.handle)
                     /\ attrs' = attrs \cup {"ref_scenario"}
                     /\ next_id' = next_id + 1
                     /\ result' = None
                ELSE /\ result' = Outcome(ad_scenario)
                     /\ UNCHANGED <<attrs, ref_scenario, next_id>>
    /\ UNCHANGED <<config, pds_scenario, files, memo>>

(***************************************************************************)
(* The metric methods.  An attribute that is not set raises AttributeError *)
(* where the method reads it.                                              *)
(***************************************************************************)
PdsData == Data(pds_scenario)

RefData == Data(ref_scenario)

get_adoption_unit_increase_pds_vs_ref_final_year ==
    Returns("get_adoption_unit_increase_pds_vs_ref_final_year", -1,
        IF ~Has({"pds_scenario", "ref_scenario", "end_year"}) THEN AttributeError
        ELSE adoption_unit_increase_pds_vs_ref_final_year(
                 get_units_adopted(pds_scenario), get_units_adopted(ref_scenario),
                 end_year))

get_adoption_unit_increase_pds_final_year ==
    Returns("get_adoption_unit_increase_pds_final_year", -1,
        IF ~Has({"pds_scenario", "end_year"}) THEN AttributeError
        ELSE Loc(get_units_adopted(pds_scenario), end_year))

get_global_percent_adoption_base_year ==
    Returns("get_global_percent_adoption_base_year", -1,
        IF ~Has({"pds_scenario", "base_year"}) THEN AttributeError
        ELSE percent_adoption(get_units_adopted(pds_scenario),
                              get_tam_units(pds_scenario), base_year + 1))

get_percent_adoption_start_year ==
    Returns("get_percent_adoption_start_year", -1,
        IF ~Has({"pds_scenario", "start_year"}) THEN AttributeError
        ELSE percent_adoption(get_units_adopted(pds_scenario),
                              get_tam_units(pds_scenario), start_year))

get_percent_adoption_end_year ==
    Returns("get_percent_adoption_end_year", -1,
        IF ~Has({"pds_scenario", "end_year"}) THEN AttributeError
        ELSE percent_adoption(get_units_adopted(pds_scenario),
                              get_tam_units(pds_scenario), end_year))

get_marginal_first_cost ==
    Returns("get_marginal_first_cost", -1,
        IF ~Has({"pds_scenario", "ref_scenario", "base_year", "end_year"})
        THEN AttributeError
        ELSE marginal_first_cost(get_annual_world_first_cost(pds_scenario),
                                 get_annual_world_first_cost(ref_scenario),
                                 base_year, end_year))

get_cumulative_first_cost_pds ==
    Returns("get_cumulative_first_cost_pds", -1,
        IF ~Has({"base_year", "end_year", "pds_scenario"}) THEN AttributeError
        ELSE cumulative_first_cost_pds(get_annual_world_first_cost(pds_scenario),
                                       base_year, end_year))

\* the PDS difference is computed, and may raise, before ref_scenario is read
get_operating_cost ==
    Returns("get_operating_cost", -1,
        IF ~Has({"pds_scenario", "end_year", "disturbance_rate", "start_year"})
        THEN AttributeError
        ELSE LET pds_result ==
                     operating_cost_side(
                         get_operating_cost_series(pds_scenario, end_year),
                         disturbance_rate, start_year, end_year)
             IN  IF ~IsValue(pds_result) THEN pds_result
                 ELSE IF ~Has({"ref_scenario"}) THEN AttributeError
                 ELSE operating_cost(
                          get_operating_cost_series(pds_scenario, end_year),
                          get_operating_cost_series(ref_scenario, end_year),
                          disturbance_rate, start_year, end_year))

get_lifetime_operating_savings ==
    Returns("get_lifetime_operating_savings", -1,
        IF ~Has({"pds_scenario", "end_year", "disturbance_rate"})
        THEN AttributeError
        ELSE lifetime_operating_savings(
                 get_lifetime_operating_savings_series(pds_scenario, end_year),
                 disturbance_rate))

get_lifetime_cashflow_npv_single(purchase_year) ==
    Returns("get_lifetime_cashflow_npv_single", purchase_year,
        IF ~Has({"npv_discount_rate", "pds_scenario"}) THEN AttributeError
        ELSE lifetime_cashflow_npv_single(
                 get_lifetime_cashflow_npv(pds_scenario, purchase_year,
                                           npv_discount_rate)))

get_payback_period_soln_only(purchase_year) ==
    Returns("get_payback_period_soln_only", purchase_year,
        IF ~Has({"npv_discount_rate", "pds_scenario"}) THEN AttributeError
        ELSE payback_period(
                 get_lifetime_cashflow_npv(pds_scenario, purchase_year,
                                           npv_discount_rate)))

get_payback_period_soln_only_npv(purchase_year) ==
    Returns("get_payback_period_soln_only_npv", purchase_year,
        IF ~Has({"npv_discount_rate", "pds_scenario"}) THEN AttributeError
        ELSE payback_period(
                 get_lifetime_cashflow_npv(pds_scenario, purchase_year,
                                           npv_discount_rate)))

\* discount_rate = 0.0
soln_to_conv_discount_rate == Num(0)

get_payback_period_soln_to_conv(purchase_year) ==
    Returns("get_payback_period_soln_to_conv", purchase_year,
        IF ~Has({"pds_scenario"}) THEN AttributeError
        ELSE payback_period(
                 get_lifetime_cashflow_npv(pds_scenario, purchase_year,
                                           soln_to_conv_discount_rate)))

get_payback_period_soln_to_conv_npv(purchase_year) ==
    Returns("get_payback_period_soln_to_conv_npv", purchase_year,
        IF ~Has({"npv_discount_rate", "pds_scenario"}) THEN AttributeError
        ELSE payback_period(
                 get_lifetime_cashflow_npv(pds_scenario, purchase_year,
                                           npv_discount_rate)))

get_lifetime_cashflow_npv_all ==
    Returns("get_lifetime_cashflow_npv_all", -1,
        IF ~Has({"ref_scenario", "pds_scenario", "start_year", "end_year",
                 "disturbance_rate", "npv_discount_rate"})
        THEN AttributeError
        ELSE lifetime_cashflow_npv_all(
                 get_annual_world_first_cost(pds_scenario),
                 get_annual_world_first_cost(ref_scenario),
                 get_lifetime_operating_savings_series(pds_scenario, end_year),
                 disturbance_rate, npv_discount_rate, start_year, end_year))

TotalCo2SeqAttrs == {"pds_scenario", "sequestration_rate_all_ocean",
                     "disturbance_rate", "ref_scenario", "start_year", "end_year"}

total_co2_seq_result ==
    total_co2_seq(
        get_carbon_sequestration2(pds_scenario, sequestration_rate_all_ocean,
                                  disturbance_rate),
        get_carbon_sequestration2(ref_scenario, sequestration_rate_all_ocean,
                                  disturbance_rate),
        start_year, end_year)

get_total_co2_seq ==
    Returns("get_total_co2_seq", -1,
        IF ~Has(TotalCo2SeqAttrs) THEN AttributeError ELSE total_co2_seq_result)

get_abatement_cost ==
    Returns("get_abatement_cost", -1,
        IF ~Has(TotalCo2SeqAttrs \cup {"npv_discount_rate"}) THEN AttributeError
        ELSE abatement_cost(
                 total_co2_seq_result.val,
                 abatement_npv_summed(
                     get_annual_world_first_cost(pds_scenario),
                     get_annual_world_first_cost(ref_scenario),
                     get_lifetime_operating_savings_series(pds_scenario, end_year),
                     get_lifetime_operating_savings_series(ref_scenario, end_year),
                     disturbance_rate, npv_discount_rate, start_year, end_year)))

get_net_profit_margin ==
    Returns("get_net_profit_margin", -1,
        IF ~Has({"pds_scenario", "end_year", "disturbance_rate", "start_year"})
        THEN AttributeError
        ELSE net_profit_margin(
                 get_net_profit_margin_series(pds_scenario, end_year),
                 disturbance_rate, start_year, end_year))

get_lifetime_profit_margin ==
    Returns("get_lifetime_profit_margin", -1,
        IF ~Has({"pds_scenario", "end_year", "disturbance_rate"})
        THEN AttributeError
        ELSE lifetime_profit_margin(
                 get_net_profit_margin_series(pds_scenario, end_year),
                 disturbance_rate))

\* reads a series and returns nothing
get_total_emissions_reduction ==
    Returns("get_total_emissions_reduction", -1,
        IF ~Has({"pds_scenario"}) THEN AttributeError ELSE None)

\* the shortened end written back to self.end_year
get_change_in_ppm_equiv_storing_end(delay_period) ==
    /\ Has({"pds_scenario", "ref_scenario", "end_year"})
    /\ call' = [op |-> "get_change_in_ppm_equiv", arg |-> delay_period]
    /\ result' = change_in_ppm_equiv(get_change_in_ppm_equiv_series(pds_scenario),
                                     get_change_in_ppm_equiv_series(ref_scenario),
                                     end_year, delay_period)
    /\ end_year' = IF delay_period > 0 THEN end_year - delay_period ELSE end_year
    /\ memo' = IF memo = NoMemo THEN [call |-> call', result |-> result'] ELSE memo
    /\ UNCHANGED <<attrs, start_year, base_year, pds_adoption_file,
                   ref_adoption_file, scenario, npv_discount_rate, disturbance_rate,
                   sequestration_rate_all_ocean, growth_rate_of_ocean_degradation,
                   delay_impact_of_protection_by_one_year,
                   delay_regrowth_of_degraded_land_by_one_year,
                   pds_scenario, ref_scenario, files, next_id>>

get_change_in_ppm_equiv(delay_period) ==
    Returns("get_change_in_ppm_equiv", delay_period,
        IF ~Has({"pds_scenario", "ref_scenario", "end_year"}) THEN AttributeError
        ELSE change_in_ppm_equiv(get_change_in_ppm_equiv_series(pds_scenario),
                                 get_change_in_ppm_equiv_series(ref_scenario),
                                 end_year, delay_period))

get_change_in_ppm_equiv_final_year ==
    Returns("get_change_in_ppm_equiv_final_year", -1,
        IF ~Has({"pds_scenario", "ref_scenario", "end_year"}) THEN AttributeError
        ELSE change_in_ppm_equiv_final_year(
                 get_change_in_ppm_equiv_series(pds_scenario),
                 get_change_in_ppm_equiv_series(ref_scenario), end_year))

AnnualCo2Attrs == {"pds_scenario", "sequestration_rate_all_ocean",
                   "disturbance_rate", "growth_rate_of_ocean_degradation",
                   "delay_impact_of_protection_by_one_year", "ref_scenario",
                   "end_year", "delay_regrowth_of_degraded_land_by_one_year"}

PdsSequestration ==
    get_carbon_sequestration4(pds_scenario, sequestration_rate_all_ocean,
        disturbance_rate, growth_rate_of_ocean_degradation,
        delay_impact_of_protection_by_one_year)

RefSequestration ==
    get_carbon_sequestration4(ref_scenario, sequestration_rate_all_ocean,
        disturbance_rate, growth_rate_of_ocean_degradation,
        delay_impact_of_protection_by_one_year)

get_max_annual_co2_sequestered ==
    Returns("get_max_annual_co2_sequestered", -1,
        IF ~Has(AnnualCo2Attrs \cup {"start_year"}) THEN AttributeError
        ELSE max_annual_co2_sequestered(
                 PdsSequestration, RefSequestration, start_year, end_year,
                 delay_regrowth_of_degraded_land_by_one_year))

get_co2_sequestered_final_year ==
    Returns("get_co2_sequestered_final_year", -1,
        IF ~Has(AnnualCo2Attrs) THEN AttributeError
        ELSE co2_sequestered_final_year(
                 PdsSequestration, RefSequestration, end_year,
                 delay_regrowth_of_degraded_land_by_one_year))

(***************************************************************************)
(* The series of the adoption model, drawn from small families.            *)
(***************************************************************************)
DisturbanceRates == {Num(0), Rat(1, 2)}

Linear(years, a, b) == [y \in years |-> Num(a * y + b)]

Intervals == {lo..hi : lo \in Years, hi \in Years} \ {{}}

\* the cash flow of a purchase in purchase_year: row i holds
\* purchase_year * flow[i]
CashflowFrom(flow, purchase_year) ==
    [y \in purchase_year..(purchase_year + Len(flow) - 1) |->
        Num(purchase_year * flow[y - purchase_year + 1])]

Cashflows(undiscounted, discounted) ==
    [key \in PurchaseYears \X RateValues |->
        CashflowFrom(IF key[2] = Num(0) THEN undiscounted ELSE discounted, key[1])]

DefaultData(k) ==
    [units_adopted |-> Linear(Years, k, 1),
     tam_units |-> Linear(Years, 0, 10),
     annual_world_first_cost |-> Linear(Years, k, 2),
     operating_cost |-> Linear(Years, 2 * k, 1),
     lifetime_operating_savings |-> Linear(Years, k, 3),
     net_profit_margin |-> Linear(Years, k, 0),
     lifetime_cashflow_npv |-> Cashflows(<<-2 * k, k, 2>>, <<-2 * k, 1, 1>>),
     carbon_sequestration |-> Linear(Years, 3 * k, 1),
     carbon_sequestration_delayed |->
         [delay \in BOOLEAN |-> Linear(Years, IF delay THEN k ELSE 2 * k, 4)],
     change_in_ppm_equiv |-> Linear(Years, k, 5)]

\* a file whose series are all empty
BlankData ==
    [units_adopted |-> EmptySeries, tam_units |-> EmptySeries,
     annual_world_first_cost |-> EmptySeries, operating_cost |-> EmptySeries,
     lifetime_operating_savings |-> EmptySeries,
     net_profit_margin |-> EmptySeries,
     lifetime_cashflow_npv |-> [key \in PurchaseYears \X RateValues |-> EmptySeries],
     carbon_sequestration |-> EmptySeries,
     carbon_sequestration_delayed |-> [delay \in BOOLEAN |-> EmptySeries],
     change_in_ppm_equiv |-> EmptySeries]

DefaultFiles == [f \in FileNames |-> DefaultData(IF f = "pds.csv" THEN 2 ELSE 1)]

(***************************************************************************)
(* The life of one OceanSolution object: construction, configuration,      *)
(* scenario loading, metric calls.                                         *)
(***************************************************************************)
Init ==
    /\ attrs = {}
    /\ start_year = 0 /\ end_year = 0 /\ base_year = 0
    /\ pds_adoption_file = "" /\ ref_adoption_file = ""
    /\ scenario = NoScenario
    /\ npv_discount_rate = NaN /\ disturbance_rate = NaN
    /\ sequestration_rate_all_ocean = NaN
    /\ growth_rate_of_ocean_degradation = NaN
    /\ delay_impact_of_protection_by_one_year = FALSE
    /\ delay_regrowth_of_degraded_land_by_one_year = FALSE
    /\ pds_scenario = Unassigned /\ ref_scenario = Unassigned
    /\ files = DefaultFiles
    /\ next_id = 1
    /\ call = NoCall
    /\ result = NoResult
    /\ memo = MemoOff

Metric ==
    \/ get_adoption_unit_increase_pds_vs_ref_final_year
    \/ get_adoption_unit_increase_pds_final_year
    \/ get_global_percent_adoption_base_year
    \/ get_percent_adoption_start_year
    \/ get_percent_adoption_end_year
    \/ get_marginal_first_cost
    \/ get_cumulative_first_cost_pds
    \/ get_operating_cost
    \/ get_lifetime_operating_savings
    \/ \E purchase_year \in PurchaseYears :
           get_lifetime_cashflow_npv_single(purchase_year)
    \/ \E purchase_year \in PurchaseYears :
           get_payback_period_soln_only(purchase_year)
    \/ \E purchase_year \in PurchaseYears :
           get_payback_period_soln_only_npv(purchase_year)
    \/ \E purchase_year \in PurchaseYears :
           get_payback_period_soln_to_conv(purchase_year)
    \/ \E purchase_year \in PurchaseYears :
           get_payback_period_soln_to_conv_npv(purchase_year)
    \/ get_lifetime_cashflow_npv_all
    \/ get_abatement_cost
    \/ get_net_profit_margin
    \/ get_lifetime_profit_margin
    \/ get_total_emissions_reduction
    \/ get_total_co2_seq
    \/ \E delay_period \in 0..1 : get_change_in_ppm_equiv(delay_period)
    \/ get_change_in_ppm_equiv_final_year
    \/ get_max_annual_co2_sequestered
    \/ get_co2_sequestered_final_year

\* the configurations of the life-cycle runs: one base year, every start year
LifeConfigs == {c \in YearConfigs : c[1] = 1 /\ c[3] = MaxYear - 1}

Construct == \E c \in LifeConfigs : __init__(c[1], c[2], c[3])

Configure ==
    \E rate \in RateValues, dr \in DisturbanceRates,
       delay_impact \in BOOLEAN, delay_regrowth \in BOOLEAN :
        configure_context(rate, dr, delay_impact, delay_regrowth)

LoadPds == \E constructed \in BOOLEAN : _load_pds_scenario(constructed)

LoadRef == \E constructed \in BOOLEAN : _load_ref_scenario(constructed)

Next == Construct \/ Configure \/ LoadPds \/ LoadRef \/ Metric

Spec == Init /\ [][Next]_vars

(***************************************************************************)
(* A configured context with both scenarios loaded: the state reached by   *)
(* __init__, the configuration and the two loads, for given input files.   *)
(***************************************************************************)
LoadedHandle(id, name, file, dr) ==
    [id |-> id, name |-> name, file |-> file,
     params |-> [p \in ParamNames |->
         CASE p = "first_cost" -> TheScenario(dr).soln_first_cost
           [] p = "expected_lifetime" -> TheScenario(dr).soln_expected_lifetime
           [] p = "net_profit_margin" -> TheScenario(dr).soln_net_profit_margin
           [] p = "operating_cost" -> TheScenario(dr).soln_operating_cost
           [] p = "sequestration_rate_all_ocean" ->
                  TheScenario(dr).sequestration_rate_all_ocean
           [] p = "disturbance_rate" -> dr
           [] p = "growth_rate_of_ocean_degradation" ->
                  TheScenario(dr).growth_rate_of_ocean_degradation]]

LoadedContext(c, rate, dr, delay_impact, delay_regrowth, inputs) ==
    /\ attrs = ConfigAttrs \cup ScalarAttrs \cup {"pds_scenario", "ref_scenario"}
    /\ base_year = c[1] /\ start_year = c[2] /\ end_year = c[3]
    /\ pds_adoption_file = "pds.csv" /\ ref_adoption_file = "ref.csv"
    /\ scenario = TheScenario(dr)
    /\ npv_discount_rate = rate /\ disturbance_rate = dr
    /\ sequestration_rate_all_ocean = Num(2)
    /\ growth_rate_of_ocean_degradation = Num(0)
    /\ delay_impact_of_protection_by_one_year = delay_impact
    /\ delay_regrowth_of_degraded_land_by_one_year = delay_regrowth
    /\ pds_scenario = LoadedHandle(1, "pds-plausible", "pds.csv", dr)
    /\ ref_scenario = LoadedHandle(2, "ref-baseline", "ref.csv", dr)
    /\ files = inputs
    /\ next_id = 3
    /\ call = NoCall
    /\ result = NoResult

Inputs(pds_data, ref_data) ==
    [f \in FileNames |-> IF f = "pds.csv" THEN pds_data ELSE ref_data]

\* every series on the years of `years` with values in `values`
SeriesOver(years, values) == [years -> {Num(v) : v \in values}]

(***************************************************************************)
(* get_operating_cost on operating-cost series that cover start_year and   *)
(* end_year.                                                               *)
(***************************************************************************)
InitOperatingCost ==
    \E c \in YearConfigs, dr \in DisturbanceRates :
    \E pds_oc \in SeriesOver(Years, {1, 2}) :
    \E ref_years \in {Years, c[2]..c[3]}, a \in {0, 1} :
        /\ LoadedContext(c, Num(0), dr, FALSE, FALSE,
               Inputs([BlankData EXCEPT !.operating_cost = pds_oc],
                      [BlankData EXCEPT
                           !.operating_cost = Linear(ref_years, a, 3)]))
        /\ memo = MemoOff

SpecOperatingCost == InitOperatingCost /\ [][get_operating_cost]_vars

\* sum of s[lo..hi], year by year
RECURSIVE RangeSum(_, _, _)
RangeSum(s, lo, hi) ==
    IF hi < lo THEN Num(0) ELSE RAdd(RangeSum(s, lo, hi - 1), s[hi])

PdsOperatingCost == PdsData.operating_cost

RefOperatingCost == RefData.operating_cost

\* C1: get_operating_cost returns (sum of REF.operatingCost over
\* start_year+1..end_year minus the same sum of PDS.operatingCost) times
\* (1 + disturbance_rate) divided by 1000, and no value at start_year or at an
\* earlier year of either series affects it.
OperatingCostIdentity ==
    call.op = "get_operating_cost" =>
        /\ result =
               Value(RDiv(RMul(RSub(RangeSum(RefOperatingCost, start_year + 1, end_year),
                                    RangeSum(PdsOperatingCost, start_year + 1, end_year)),
                               RAdd(Num(1), disturbance_rate)),
                          Num(1000)))
        /\ \A y \in Years, v \in {Num(0), Num(9)} :
               y <= start_year =>
                 /\ y \in Index(PdsOperatingCost) =>
                      operating_cost([PdsOperatingCost EXCEPT ![y] = v],
                                     RefOperatingCost, disturbance_rate,
                                     start_year, end_year) = result
                 /\ y \in Index(RefOperatingCost) =>
                      operating_cost(PdsOperatingCost,
                                     [RefOperatingCost EXCEPT ![y] = v],
                                     disturbance_rate, start_year, end_year) = result

\* a call whose result is not zero, over more than one year, with a
\* disturbance, where the start-year values of the two series differ
OperatingCostWitness ==
    /\ call.op = "get_operating_cost"
    /\ IsValue(result) /\ result.val # Num(0)
    /\ start_year + 1 < end_year
    /\ disturbance_rate # Num(0)
    /\ PdsOperatingCost[start_year] # RefOperatingCost[start_year]

(***************************************************************************)
(* The four payback-period methods on lifetime cash flow series.           *)
(***************************************************************************)
Flows(values) == UNION {[1..n -> values] : n \in 1..MaxFlow}

InitPayback ==
    \E rate \in RateValues :
    \E undiscounted \in Flows({-1, 0, 2}) :
    \E discounted \in {<<-2, 1, 1>>, <<3, -1>>, <<-1, 4, -4, 4>>} :
        /\ LoadedContext(<<1, 1, MaxYear - 1>>, rate, Num(0), FALSE, FALSE,
               Inputs([BlankData EXCEPT
                           !.lifetime_cashflow_npv =
                               Cashflows(undiscounted, discounted)],
                      BlankData))
        /\ memo = MemoOff

NextPayback ==
    \/ \E purchase_year \in PurchaseYears :
           get_payback_period_soln_only(purchase_year)
    \/ \E purchase_year \in PurchaseYears :
           get_payback_period_soln_only_npv(purchase_year)
    \/ \E purchase_year \in PurchaseYears :
           get_payback_period_soln_to_conv(purchase_year)
    \/ \E purchase_year \in PurchaseYears :
           get_payback_period_soln_to_conv_npv(purchase_year)

SpecPayback == InitPayback /\ [][NextPayback]_vars

PaybackOps == {"get_payback_period_soln_only", "get_payback_period_soln_only_npv",
               "get_payback_period_soln_to_conv",
               "get_payback_period_soln_to_conv_npv"}

\* the running sums of the negated series, one per row
RunningSums(s) ==
    {RNeg(RangeSum(s, CHOOSE lo \in Index(s) : \A k \in Index(s) : lo <= k, y)) :
        y \in Index(s)}

IsLargest(m, values) == m \in values /\ \A x \in values : ~RGreater(x, m)

\* the rate each method hands to getLifetimeCashflowNpv
PaybackRate(op) ==
    IF op = "get_payback_period_soln_to_conv" THEN Num(0) ELSE npv_discount_rate

\* C2: each payback-period method returns the largest running sum of the
\* negated PDS.getLifetimeCashflowNpv(purchase_year, rate) series, a value and
\* not a year, with rate 0.0 for soln_to_conv and npv_discount_rate for the
\* NPV variants (and, in the code, for soln_only).
PaybackIsMaxOfCumsum ==
    call.op \in PaybackOps =>
        /\ IsValue(result)
        /\ IsLargest(result.val,
               RunningSums(PdsData.lifetime_cashflow_npv[
                               <<call.arg, PaybackRate(call.op)>>]))

\* soln_to_conv called where the discounted series would give another
\* answer, and the largest running sum is reached by two prefixes
PaybackWitness ==
    /\ call.op = "get_payback_period_soln_to_conv"
    /\ npv_discount_rate # Num(0)
    /\ IsValue(result)
    /\ ~IsLargest(result.val,
           RunningSums(PdsData.lifetime_cashflow_npv[<<call.arg, npv_discount_rate>>]))
    /\ LET s == CumSum(SeriesNeg(PdsData.lifetime_cashflow_npv[<<call.arg, Num(0)>>]))
       IN  Cardinality({y \in Index(s) : s[y] = result.val}) >= 2

(***************************************************************************)
(* get_lifetime_cashflow_npv_all and get_abatement_cost on first-cost and  *)
(* operating-savings series of any extent.                                 *)
(***************************************************************************)
\* base_year does not enter these two methods
CashflowConfigs == {c \in YearConfigs : c[1] = 1}

InitCashflow ==
    \E c \in CashflowConfigs, rate \in RateValues, dr \in DisturbanceRates :
    \E fc_years \in Intervals, los_years \in Intervals :
    \E ref_fc_years \in {fc_years, Years} :
        /\ LoadedContext(c, rate, dr, FALSE, FALSE,
               Inputs([BlankData EXCEPT
                           !.annual_world_first_cost = Linear(fc_years, 1, 2),
                           !.lifetime_operating_savings = Linear(los_years, 2, 5),
                           !.carbon_sequestration = Linear(Years, 6, 1)],
                      [BlankData EXCEPT
                           !.annual_world_first_cost = Linear(ref_fc_years, 3, 1),
                           !.lifetime_operating_savings = Linear(los_years, 1, 7),
                           !.carbon_sequestration = Linear(Years, 3, 1)]))
        /\ memo = MemoOff

NextCashflow == get_lifetime_cashflow_npv_all \/ get_abatement_cost

SpecCashflow == InitCashflow /\ [][NextCashflow]_vars

PdsFirstCost == PdsData.annual_world_first_cost

RefFirstCost == RefData.annual_world_first_cost

PdsSavings == PdsData.lifetime_operating_savings

RefSavings == RefData.lifetime_operating_savings

\* REF.firstCost - PDS.firstCost at y, inside [start_year-1, end_year]; 0
\* where the series have no value
NetFirstCostAt(y) ==
    IF /\ y \in Index(PdsFirstCost) /\ y \in Index(RefFirstCost)
       /\ start_year - 1 <= y /\ y <= end_year
    THEN RSub(RefFirstCost[y], PdsFirstCost[y])
    ELSE Num(0)

\* -PDS.lifetimeOperatingSavings * (1 + disturbance_rate) at y, 0 where absent
NpvOperatingCostAt(y) ==
    IF y \in Index(PdsSavings)
    THEN RNeg(RMul(PdsSavings[y], RAdd(Num(1), disturbance_rate)))
    ELSE Num(0)

\* the years of the combined series
CombinedYears ==
    {y \in Index(PdsFirstCost) \cup Index(RefFirstCost) :
        start_year - 1 <= y /\ y <= end_year} \cup Index(PdsSavings)

PositionOf(y) == Cardinality({k \in CombinedYears : k < y})

DiscountAt(y, rate) == RPow(RDiv(Num(1), RAdd(Num(1), rate)), PositionOf(y) + 1)

RECURSIVE NpvOver(_, _)
NpvOver(years, rate) ==
    IF years = {} THEN Num(0)
    ELSE LET y == CHOOSE k \in years : TRUE
         IN  RAdd(RMul(RAdd(NetFirstCostAt(y), NpvOperatingCostAt(y)),
                       DiscountAt(y, rate)),
                  NpvOver(years \ {y}, rate))

\* C3: get_lifetime_cashflow_npv_all returns the sum over the rows of the
\* combined series (clipped net first cost plus negated, disturbed operating
\* savings, aligned by year, a missing value counting as 0) of the row's value
\* times (1/(1+npv_discount_rate))^(position+1), divided by 1000; with a rate
\* of 0 that is the plain sum of the combined series divided by 1000.
NpvAllIsPositionalSum ==
    call.op = "get_lifetime_cashflow_npv_all" =>
        /\ result = Value(RDiv(NpvOver(CombinedYears, npv_discount_rate), Num(1000)))
        /\ npv_discount_rate = Num(0) =>
               result = Value(RDiv(RangeSum(
                   [y \in Years |-> RAdd(NetFirstCostAt(y), NpvOperatingCostAt(y))],
                   0, MaxYear), Num(1000)))

\* a discounted call where the savings series starts before start_year-1 (a
\* row's position is not its distance from start_year-1) and a year of the
\* clipped first cost is missing from the savings series
NpvAllWitness ==
    /\ call.op = "get_lifetime_cashflow_npv_all"
    /\ npv_discount_rate # Num(0)
    /\ IsValue(result) /\ result.val # Num(0)
    /\ \E y \in Index(PdsSavings) : y < start_year - 1
    /\ \E y \in Index(PdsFirstCost) \cap Index(RefFirstCost) :
           start_year - 1 <= y /\ y <= end_year /\ y \notin Index(PdsSavings)

\* (REF - PDS).lifetimeOperatingSavings * (1 + disturbance_rate) at y, 0 where
\* absent
AbatementOperatingCostAt(y) ==
    IF y \in Index(PdsSavings) /\ y \in Index(RefSavings)
    THEN RMul(RSub(RefSavings[y], PdsSavings[y]), RAdd(Num(1), disturbance_rate))
    ELSE Num(0)

RECURSIVE AbatementNpvOver(_)
AbatementNpvOver(years) ==
    IF years = {} THEN Num(0)
    ELSE LET y == CHOOSE k \in years : TRUE
         IN  RAdd(RMul(RAdd(NetFirstCostAt(y), AbatementOperatingCostAt(y)),
                       DiscountAt(y, npv_discount_rate)),
                  AbatementNpvOver(years \ {y}))

\* C4: get_abatement_cost builds its net cash flow as
\* get_lifetime_cashflow_npv_all does: a year present in only one of the
\* clipped first-cost series and the operating-cost series contributes the
\* value of the series that has it to the discounted sum over
\* [start_year, end_year].
AbatementFillsMissingWithZero ==
    (call.op = "get_abatement_cost" /\ total_co2_seq_result.val # Num(0)) =>
        result = InBillions(Value(
            RDiv(RNeg(AbatementNpvOver(
                          {y \in CombinedYears : start_year <= y /\ y <= end_year})),
                 total_co2_seq_result.val)))

(***************************************************************************)
(* get_marginal_first_cost on first-cost series of any extent.             *)
(***************************************************************************)
InitFirstCost ==
    \E c \in YearConfigs, a \in {1, 2} :
    \E pds_years \in Intervals :
    \E ref_years \in {pds_years, Years} :
        /\ LoadedContext(c, Num(0), Num(0), FALSE, FALSE,
               Inputs([BlankData EXCEPT
                           !.annual_world_first_cost = Linear(pds_years, 3, a)],
                      [BlankData EXCEPT
                           !.annual_world_first_cost = Linear(ref_years, 1, 2)]))
        /\ memo = MemoOff

SpecFirstCost == InitFirstCost /\ [][get_marginal_first_cost]_vars

Sentinels == {Num(0), Num(99)}

\* C5: get_marginal_first_cost sums PDS.firstCost - REF.firstCost over the
\* years base_year..end_year and divides by 1000: a value of either series at
\* base_year-1 or end_year+1 never affects the result, a value at base_year or
\* end_year (a year both series have) does.
MarginalFirstCostRange ==
    call.op = "get_marginal_first_cost" =>
        /\ (base_year..end_year) \subseteq Index(PdsFirstCost) \cap Index(RefFirstCost)
               => result = Value(RDiv(RSub(RangeSum(PdsFirstCost, base_year, end_year),
                                           RangeSum(RefFirstCost, base_year, end_year)),
                                      Num(1000)))
        /\ \A y \in {base_year - 1, end_year + 1}, v \in Sentinels :
               /\ y \in Index(PdsFirstCost) =>
                    marginal_first_cost([PdsFirstCost EXCEPT ![y] = v], RefFirstCost,
                                        base_year, end_year) = result
               /\ y \in Index(RefFirstCost) =>
                    marginal_first_cost(PdsFirstCost, [RefFirstCost EXCEPT ![y] = v],
                                        base_year, end_year) = result
        /\ \A y \in {base_year, end_year}, v \in Sentinels :
               (/\ IsValue(result)
                /\ y \in Index(PdsFirstCost) /\ y \in Index(RefFirstCost)) =>
                 /\ v # PdsFirstCost[y] =>
                      marginal_first_cost([PdsFirstCost EXCEPT ![y] = v], RefFirstCost,
                                          base_year, end_year) # result
                 /\ v # RefFirstCost[y] =>
                      marginal_first_cost(PdsFirstCost, [RefFirstCost EXCEPT ![y] = v],
                                          base_year, end_year) # result

\* a call over several years on two series that hold both sentinel years
MarginalFirstCostWitness ==
    /\ call.op = "get_marginal_first_cost"
    /\ IsValue(result) /\ result.val # Num(0)
    /\ base_year < end_year
    /\ {base_year - 1, end_year + 1} \subseteq Index(PdsFirstCost) \cap Index(RefFirstCost)
    /\ PdsFirstCost[base_year - 1] # RefFirstCost[base_year - 1]
    /\ PdsFirstCost[end_year + 1] # RefFirstCost[end_year + 1]

(***************************************************************************)
(* The carbon metrics: get_total_co2_seq on series of any extent, and the  *)
(* two annual metrics on series that cover every year.                     *)
(***************************************************************************)
\* a series with one peak
Peaked(years, peak) == [y \in years |-> Num(IF y = peak THEN 9 ELSE y)]

InitCarbon ==
    \E c \in YearConfigs, delay_impact \in BOOLEAN, delay_regrowth \in BOOLEAN :
    \E peak \in Years, seq_years \in Intervals :
        /\ LoadedContext(c, Num(0), Num(0), delay_impact, delay_regrowth,
               Inputs([BlankData EXCEPT
                           !.carbon_sequestration = Linear(seq_years, 6, 1),
                           !.carbon_sequestration_delayed =
                               [delay \in BOOLEAN |->
                                   IF delay THEN Linear(Years, 2, 3)
                                   ELSE Peaked(Years, peak)]],
                      [BlankData EXCEPT
                           !.carbon_sequestration = Linear(seq_years, 3, 1),
                           !.carbon_sequestration_delayed =
                               [delay \in BOOLEAN |->
                                   IF delay THEN Peaked(Years, peak)
                                   ELSE Linear(Years, 0, 1)]]))
        /\ memo = MemoOff

NextCarbon ==
    \/ get_total_co2_seq
    \/ get_max_annual_co2_sequestered
    \/ get_co2_sequestered_final_year

SpecCarbon == InitCarbon /\ [][NextCarbon]_vars

\* PDS - REF of the series the accessor returns for the impact-delay flag
NetSequestrationAt(y) == RSub(PdsSequestration[y], RefSequestration[y])

\* the years the regrowth-delay flag selects
AnnualStart == IF delay_regrowth_of_degraded_land_by_one_year
               THEN start_year - 1 ELSE start_year

AnnualEnd == IF delay_regrowth_of_degraded_land_by_one_year
             THEN end_year - 1 ELSE end_year

\* C6: with delay_regrowth_of_degraded_land_by_one_year set,
\* get_max_annual_co2_sequestered returns the largest net sequestration over
\* [start_year-1, end_year-1] / 1000 and get_co2_sequestered_final_year the
\* net value at end_year-1 / 1000; without it the years are
\* [start_year, end_year] and end_year.  delay_impact_of_protection_by_one_year
\* only selects the series and moves no year.
DelayFlagShiftsYears ==
    /\ call.op = "get_max_annual_co2_sequestered" =>
           /\ IsValue(result)
           /\ IsLargest(RMul(result.val, Num(1000)),
                        {NetSequestrationAt(y) : y \in AnnualStart..AnnualEnd})
    /\ call.op = "get_co2_sequestered_final_year" =>
           result = Value(RDiv(NetSequestrationAt(AnnualEnd), Num(1000)))

\* the largest value lies in the year before start_year, which only the
\* delayed range holds, and both flags are set
DelayFlagWitness ==
    /\ call.op = "get_max_annual_co2_sequestered"
    /\ delay_regrowth_of_degraded_land_by_one_year
    /\ delay_impact_of_protection_by_one_year
    /\ IsValue(result)
    /\ result.val = RDiv(NetSequestrationAt(start_year - 1), Num(1000))
    /\ \A y \in start_year..end_year :
           RGreater(NetSequestrationAt(start_year - 1), NetSequestrationAt(y))

\* C7: a metric that needs a year outside the range a series covers fails
\* with a lookup error: get_total_co2_seq, which sums the net sequestration
\* over start_year+1..end_year, returns no value when one of those years is
\* missing from the PDS or the REF series.
NoPartialResult ==
    (/\ call.op = "get_total_co2_seq"
     /\ ~((start_year + 1)..end_year \subseteq
              Index(PdsData.carbon_sequestration) \cap
              Index(RefData.carbon_sequestration)))
        => result.kind = "KeyError"

(***************************************************************************)
(* Metric calls, in any order, on a configured and loaded context.         *)
(***************************************************************************)
InitQueries ==
    \E c \in LifeConfigs, rate \in RateValues, delay \in BOOLEAN :
        /\ LoadedContext(c, rate, Rat(1, 2), delay, delay, DefaultFiles)
        /\ memo = NoMemo

SpecQueries == InitQueries /\ [][Metric]_vars

MetricOps ==
    {"get_adoption_unit_increase_pds_vs_ref_final_year",
     "get_adoption_unit_increase_pds_final_year",
     "get_global_percent_adoption_base_year", "get_percent_adoption_start_year",
     "get_percent_adoption_end_year", "get_marginal_first_cost",
     "get_cumulative_first_cost_pds", "get_operating_cost",
     "get_lifetime_operating_savings", "get_lifetime_cashflow_npv_single",
     "get_payback_period_soln_only", "get_payback_period_soln_only_npv",
     "get_payback_period_soln_to_conv", "get_payback_period_soln_to_conv_npv",
     "get_lifetime_cashflow_npv_all", "get_abatement_cost",
     "get_net_profit_margin", "get_lifetime_profit_margin",
     "get_total_emissions_reduction", "get_total_co2_seq",
     "get_change_in_ppm_equiv", "get_change_in_ppm_equiv_final_year",
     "get_max_annual_co2_sequestered", "get_co2_sequestered_final_year"}

\* C8: a metric call changes no configuration scalar of the context and
\* neither handle (its identity, its name, its injected parameters), and a
\* metric called again, after any other metric calls, returns what it
\* returned the first time.
QueriesArePure ==
    [][call'.op \in MetricOps =>
          /\ config' = config
          /\ attrs' = attrs
          /\ pds_scenario' = pds_scenario /\ ref_scenario' = ref_scenario
          /\ files' = files
          /\ memo.call = call' => result' = memo.result]_vars

\* a second, different metric has returned a value after a first one
QueriesWitness ==
    /\ memo.call.op = "get_change_in_ppm_equiv" /\ memo.call.arg = 1
    /\ IsValue(memo.result)
    /\ call.op = "get_abatement_cost"
    /\ IsValue(result) /\ result.val # NaN

(***************************************************************************)
(* Claims about construction and loading, on the life of one object.       *)
(***************************************************************************)
Injected(h) ==
    /\ h.params["first_cost"] = scenario.soln_first_cost
    /\ h.params["expected_lifetime"] = scenario.soln_expected_lifetime
    /\ h.params["net_profit_margin"] = scenario.soln_net_profit_margin
    /\ h.params["operating_cost"] = scenario.soln_operating_cost
    /\ h.params["sequestration_rate_all_ocean"] =
           scenario.sequestration_rate_all_ocean
    /\ h.params["disturbance_rate"] = scenario.disturbance_rate
    /\ h.params["growth_rate_of_ocean_degradation"] =
           scenario.growth_rate_of_ocean_degradation
    /\ \A p \in ParamNames : ~IsNaN(h.params[p])

FailedLoadChangesNothing ==
    [][(result'.kind = "ValueError" /\
        call'.op \in {"_load_pds_scenario", "_load_ref_scenario"}) =>
          /\ result'.msg =
                 <<"Unable to initialise",
                   IF call'.op = "_load_pds_scenario"
                   THEN scenario.pds_scenario_name ELSE scenario.ref_scenario_name>>
          /\ pds_scenario' = pds_scenario /\ ref_scenario' = ref_scenario
          /\ attrs' = attrs]_vars

\* a first load of REF has failed while PDS was loaded
FailedLoadWitness ==
    /\ call.op = "_load_ref_scenario" /\ result.kind = "ValueError"
    /\ "ref_scenario" \notin attrs /\ ref_scenario = Unassigned
    /\ "pds_scenario" \in attrs /\ Injected(pds_scenario)

====
